---- MODULE Spec2Model ----
(***************************************************************************)
(* The Met Office "MODecide" Alexa skill.  The request handlers of         *)
(* src/src/index.js (dialog, one-shot, help and launch) and the one-shot   *)
(* handler of src/unnamed/part_001 (geocoder and forecast calls), driven   *)
(* by a host that sends one event per turn and keeps session.attributes    *)
(* between the turns of a session.                                         *)
(*                                                                         *)
(* JavaScript strings are sequences of tokens (a phrase, a slot word or a  *)
(* single character), so that concatenation is \o and "the speech names    *)
(* X" is an infix test.  The empty string is << >>.                        *)
(***************************************************************************)
EXTENDS Integers, Sequences, FiniteSets, TLC

VARIABLES attributes, sessionNew, event, response, calls, turn, pending,
          lookups,
          rainProbIn, decisionTxt, \* getUmbrellaDecisionResponse: argument, result
          dateSlotIn, resolved     \* getDateFromIntent: Date slot, result

\* The state of a conversation with the skill.
host ==
    <<attributes, sessionNew, event, response, calls, turn, pending, lookups>>

\* The argument and result of the functions evaluated on their own.
functions == <<rainProbIn, decisionTxt, dateSlotIn, resolved>>

vars == <<host, functions>>

\* Number of requests the host sends in one run.
MaxTurns == 2

(***************************************************************************)
(* Values                                                                  *)
(***************************************************************************)

\* intent.slots.X is undefined (slot missing) or an object with a value.
NoSlot == [present |-> FALSE, value |-> << >>]

SlotOf(v) == [present |-> TRUE, value |-> v]

\* JavaScript truthiness of  slot && slot.value
SlotHasValue(slot) == slot.present /\ slot.value # << >>

\* The values a JavaScript variable holds in the handlers.
Undefined == [type |-> "undefined", str |-> << >>]

JSString(s) == [type |-> "string", str |-> s]

\* session.attributes = {} : neither city nor date is set.
NoCity == [set |-> FALSE, value |-> << >>]

NoDate == [set |-> FALSE, displayDate |-> << >>, requestDateParam |-> << >>]

EmptyAttributes == [city |-> NoCity, date |-> NoDate]

\* JavaScript truthiness of session.attributes.city (a stored string)
\* and of session.attributes.date (a stored object).
HasCity(attrs) == attrs.city.set /\ attrs.city.value # << >>

HasDate(attrs) == attrs.date.set

(***************************************************************************)
(* Inputs                                                                  *)
(***************************************************************************)

Seattle == <<"Seattle">>

Nowhereville == <<"Nowhereville">>

PlaceValues == {Seattle, Nowhereville}

PlaceSlots == {NoSlot, SlotOf(<< >>)} \cup {SlotOf(p) : p \in PlaceValues}

\* Date slot strings, one character per token.
Date20150620 == <<"2", "0", "1", "5", "-", "0", "6", "-", "2", "0">>

Date20151105 == <<"2", "0", "1", "5", "-", "1", "1", "-", "0", "5">>

\* A Date slot string new Date() cannot parse.
DateSoon == <<"s", "o", "o", "n">>

DateValues == {Date20150620, Date20151105, DateSoon}

DateSlots == {NoSlot, SlotOf(<< >>)} \cup {SlotOf(d) : d \in DateValues}

SlotInputs ==
    [City : PlaceSlots, Date : DateSlots, location : PlaceSlots,
     ukPlace : {NoSlot}]

NoSlots ==
    [City |-> NoSlot, Date |-> NoSlot, location |-> NoSlot, ukPlace |-> NoSlot]

NoIntent == [name |-> "none", slots |-> NoSlots]

\* The slots of the NeedUmbrella intent of part_002.
UkPlaceInputs ==
    [City : {NoSlot}, Date : {NoSlot}, location : {NoSlot},
     ukPlace : PlaceSlots]

(***************************************************************************)
(* Dates: new Date(string), the getters, and the request parameter         *)
(***************************************************************************)

Digits == <<"0", "1", "2", "3", "4", "5", "6", "7", "8", "9">>

IsDigit(c) == \E i \in 1..10 : Digits[i] = c

DigitVal(c) == (CHOOSE i \in 1..10 : Digits[i] = c) - 1

RECURSIVE NumStr(_)
\* Number to decimal string.
NumStr(n) == IF n < 10 THEN <<Digits[n + 1]>>
             ELSE NumStr(n \div 10) \o <<Digits[(n % 10) + 1]>>

DaysInMonth(y, m) ==
    IF m \in {4, 6, 9, 11} THEN 30
    ELSE IF m = 2
         THEN (IF (y % 4 = 0 /\ y % 100 # 0) \/ y % 400 = 0 THEN 29 ELSE 28)
         ELSE 31

InvalidDate == [valid |-> FALSE, year |-> 0, month |-> 0, day |-> 0]

\* new Date(s) for a date-only string: YYYY-MM-DD is a date, anything else
\* is an Invalid Date object (never an exception, never null).
\* month is what getMonth() returns (0-based); the host clock is UTC.
NewDate(s) ==
    IF /\ Len(s) = 10
       /\ \A i \in {1, 2, 3, 4, 6, 7, 9, 10} : IsDigit(s[i])
       /\ s[5] = "-"
       /\ s[8] = "-"
    THEN LET y == 1000 * DigitVal(s[1]) + 100 * DigitVal(s[2])
                  + 10 * DigitVal(s[3]) + DigitVal(s[4])
             m == 10 * DigitVal(s[6]) + DigitVal(s[7])
             d == 10 * DigitVal(s[9]) + DigitVal(s[10])
         IN  IF m \in 1..12 /\ d >= 1 /\ d <= DaysInMonth(y, m)
             THEN [valid |-> TRUE, year |-> y, month |-> m - 1, day |-> d]
             ELSE InvalidDate
    ELSE InvalidDate

\* Variant: no leading zero.
PadTwoUnpadded(date, n) == IF ~date.valid THEN <<"NaN">> ELSE NumStr(n)

\* x < 10 ? '0' + x : x   followed by string concatenation; NaN < 10 is false.
PadTwo(date, n) ==
    IF ~date.valid THEN <<"NaN">>
    ELSE IF n < 10 THEN <<"0">> \o NumStr(n) ELSE NumStr(n)

YearStr(date) == IF date.valid THEN NumStr(date.year) ELSE <<"NaN">>

\* alexaDateUtil.getFormattedDate(date): the display text of a date.
getFormattedDate(date) ==
    IF date.valid
    THEN <<"on ">> \o NumStr(date.month + 1) \o <<"/">> \o NumStr(date.day)
         \o <<"/">> \o NumStr(date.year)
    ELSE <<"undefined ", "NaN", "/", "NaN", "/", "NaN">>

ResolvedDate(display, param) ==
    [set |-> TRUE, displayDate |-> display, requestDateParam |-> param]

getDateFromIntent(intent) ==
    LET dateSlot == intent.slots.Date IN
    IF ~dateSlot.present \/ dateSlot.value = << >>
    THEN ResolvedDate(<<"Today">>, <<"date=today">>)
    ELSE LET date == NewDate(dateSlot.value)
             month == PadTwo(date, date.month + 1)
             dayOfMonth == PadTwo(date, date.day)
             requestDay == <<"begin_date=">> \o YearStr(date) \o month
                           \o dayOfMonth \o <<"&range=24">>
         IN  ResolvedDate(getFormattedDate(date), requestDay)

(***************************************************************************)
(* AlexaSkill.js: the Response object and the dispatch of execute()        *)
(***************************************************************************)

NoResponse ==
    [kind |-> "none", speech |-> << >>, reprompt |-> << >>,
     shouldEndSession |-> FALSE, sessionAttributes |-> EmptyAttributes,
     error |-> "none"]

\* response.ask(speechOutput, repromptSpeech): context.succeed with a
\* directive that keeps the session open and carries session.attributes.
Ask(session, speechOutput, repromptText) ==
    [kind |-> "ask", speech |-> speechOutput, reprompt |-> repromptText,
     shouldEndSession |-> FALSE, sessionAttributes |-> session,
     error |-> "none"]

\* response.tellWithCard(speechOutput, cardTitle, cardContent):
\* context.succeed with a directive that ends the session.
TellWithCard(session, speechOutput) ==
    [kind |-> "tellWithCard", speech |-> speechOutput, reprompt |-> << >>,
     shouldEndSession |-> TRUE, sessionAttributes |-> session,
     error |-> "none"]

\* An exception thrown while the handler runs inside execute()'s try block:
\* context.fail(e), no directive.
Fail(session, e) ==
    [kind |-> "fail", speech |-> << >>, reprompt |-> << >>,
     shouldEndSession |-> FALSE, sessionAttributes |-> session,
     error |-> e]

\* The handler returned without calling response.ask/tell and without
\* leaving a callback that could: the host gets no directive.
Silent(session) ==
    [kind |-> "none", speech |-> << >>, reprompt |-> << >>,
     shouldEndSession |-> FALSE, sessionAttributes |-> session,
     error |-> "none"]

\* No weather request has been made.
NoRequest == [made |-> FALSE, date |-> << >>]

\* A weather request for the given date.
WeatherRequest(date) == [made |-> TRUE, date |-> date]

\* new Date(): the date and time of the call.
CurrentDate == <<"new Date()">>

\* What a handler did: the functions it entered, in order, its result, and
\* the weather request it made.
Outcome(fns, r) == [calls |-> fns, response |-> r, request |-> NoRequest]

Enter(fn, o) == [o EXCEPT !.calls = <<fn>> \o @]

(***************************************************************************)
(* src/src/index.js: business logic                                        *)
(***************************************************************************)

\* Reads the slot named "location"; returns undefined when it is missing or
\* empty (the if-branch is an empty block), the raw slot string otherwise.
getLocationFromIntent(intent, assignDefault) ==
    LET locationSlot == intent.slots.location IN
    IF ~locationSlot.present \/ locationSlot.value = << >>
    THEN Undefined
    ELSE JSString(locationSlot.value)

\* v.error and v.city of a string are undefined; of undefined, a TypeError.
PropertyThrows(v) == v.type = "undefined"

PropertyTruthy(v, name) == FALSE

PropertyStr(v, name) == <<"undefined">>

handleCityDialogRequest(intent, session) ==
    LET cityStation == getLocationFromIntent(intent, FALSE) IN
    Enter("handleCityDialogRequest",
      IF PropertyThrows(cityStation)
      THEN Outcome(<<"getLocationFromIntent">>, Fail(session, "TypeError"))
      ELSE IF PropertyTruthy(cityStation, "error")
      THEN \* getAllStationsText is not defined
           Outcome(<<"getLocationFromIntent">>,
                   Fail(session, "ReferenceError"))
      ELSE IF HasDate(session)
      THEN \* getFinalTideResponse is not defined
           Outcome(<<"getLocationFromIntent">>,
                   Fail(session, "ReferenceError"))
      ELSE Outcome(<<"getLocationFromIntent">>,
             Ask([session EXCEPT
                    !.city = [set |-> TRUE, value |-> cityStation.str]],
                 <<"For which date?">>,
                 <<"For which date would you like tide information for ">>
                   \o PropertyStr(cityStation, "city") \o <<"?">>)))

\* Variant: the date is written to the session whether or not a city is
\* held.
handleDateDialogRequestAlwaysStores(intent, session) ==
    LET date == getDateFromIntent(intent) IN
    Enter("handleDateDialogRequest",
      Outcome(<<"getDateFromIntent">>,
        Ask([session EXCEPT !.date = date],
            <<"For which city would you like tide information for ">>
              \o date.displayDate \o <<"?">>,
            <<"For which city?">>)))

\* Variant: the date is resolved but never written to the session.
handleDateDialogRequestNoStore(intent, session) ==
    LET date == getDateFromIntent(intent) IN
    Enter("handleDateDialogRequest",
      Outcome(<<"getDateFromIntent">>,
        Ask(session,
            <<"For which city would you like tide information for ">>
              \o date.displayDate \o <<"?">>,
            <<"For which city?">>)))

handleDateDialogRequest(intent, session) ==
    LET date == getDateFromIntent(intent) IN
    Enter("handleDateDialogRequest",
      IF ~date.set
      THEN Outcome(<<"getDateFromIntent">>,
             Ask(session,
                 <<"I'm sorry, I didn't understand that date. ",
                   "Please try again saying a day of the week, for example, Saturday. ",
                   "For which date would you like tide information?">>,
                 <<"Please try again saying a day of the week, for example, Saturday. ",
                   "For which date would you like tide information?">>))
      ELSE IF HasCity(session)
      THEN \* getFinalTideResponse is not defined
           Outcome(<<"getDateFromIntent">>, Fail(session, "ReferenceError"))
      ELSE Outcome(<<"getDateFromIntent">>,
             Ask([session EXCEPT !.date = date],
                 <<"For which city would you like tide information for ">>
                   \o date.displayDate \o <<"?">>,
                 <<"For which city?">>)))

\* handleSupportedCitiesRequest is not defined in this file.
SupportedCitiesCall(intent, session) ==
    Outcome(<< >>, Fail(session, "ReferenceError"))

\* Variant: the re-prompt clears the stored city.
handleNoSlotDialogRequestClears(intent, session) ==
    Enter("handleNoSlotDialogRequest",
      IF HasCity(session)
      THEN Outcome(<< >>,
             Ask([session EXCEPT !.city = NoCity],
                 <<"Please try again saying a day of the week, for example, Saturday. ">>,
                 <<"Please try again saying a day of the week, for example, Saturday. ">>))
      ELSE SupportedCitiesCall(intent, session))

handleNoSlotDialogRequest(intent, session) ==
    Enter("handleNoSlotDialogRequest",
      IF HasCity(session)
      THEN Outcome(<< >>,
             Ask(session,
                 <<"Please try again saying a day of the week, for example, Saturday. ">>,
                 <<"Please try again saying a day of the week, for example, Saturday. ">>))
      ELSE SupportedCitiesCall(intent, session))

\* A probability on the 0-1 scale, as the fraction num/den.
Half == [num |-> 1, den |-> 2]

\* a > b for two fractions with positive denominators.
GreaterThan(a, b) == a.num * b.den > b.num * a.den

\* Variant: the boundary counts as rain.
getUmbrellaDecisionResponseAtLeast(p) ==
    IF ~GreaterThan(Half, p)
    THEN <<"Take an umbrella">>
    ELSE <<"Don't take an umbrella">>

\* rainProb > 0.5
getUmbrellaDecisionResponse(p) ==
    IF GreaterThan(p, Half)
    THEN <<"Take an umbrella">>
    ELSE <<"Don't take an umbrella">>

\* makeDataPointRequest has an empty body: the callback that would call
\* response.tellWithCard is never invoked.
getFinalUmbrellaResponse(location, date, session) ==
    [Outcome(<<"getFinalUmbrellaResponse", "makeDataPointRequest">>,
             Silent(session))
        EXCEPT !.request = WeatherRequest(date)]

\* Variant: the date-resolution branch of the one-shot handler is active.
handleOneshotUmbrellaRequestCustomDate(intent, session) ==
    LET location == getLocationFromIntent(intent, TRUE)
        date == getDateFromIntent(intent)
    IN
    Enter("handleOneshotUmbrellaRequest",
      IF PropertyThrows(location)
      THEN Outcome(<<"getLocationFromIntent">>, Fail(session, "TypeError"))
      ELSE Enter("getLocationFromIntent",
             Enter("getDateFromIntent",
               getFinalUmbrellaResponse(location, date.requestDateParam,
                                        session))))

handleOneshotUmbrellaRequest(intent, session) ==
    LET location == getLocationFromIntent(intent, TRUE)
        repromptText == <<"Currently, I can only help you with cities in the UK",
                          "Which city would you like tide information for?">>
    IN
    Enter("handleOneshotUmbrellaRequest",
      IF PropertyThrows(location)
      THEN Outcome(<<"getLocationFromIntent">>, Fail(session, "TypeError"))
      ELSE IF PropertyTruthy(location, "error")
      THEN Outcome(<<"getLocationFromIntent">>,
             Ask(session,
                 IF PropertyTruthy(location, "city")
                 THEN <<"I'm sorry, I don't have any data for ">>
                      \o PropertyStr(location, "city") \o <<". ">>
                      \o repromptText
                 ELSE repromptText,
                 repromptText))
      ELSE Enter("getLocationFromIntent",
                 getFinalUmbrellaResponse(location, CurrentDate, session)))

\* Variant: the help text names the date the session holds.
handleHelpRequestNamesDate(session) ==
    Outcome(<<"handleHelpRequest">>,
      Ask(session,
          <<"I'm here to help you make decisions that rely on our ">>
              \o session.date.displayDate,
          <<"Ask me if you are going to need an umbrella if you like.">>))

handleHelpRequest(session) ==
    LET repromptText ==
            <<"Ask me if you are going to need an umbrella if you like.">>
    IN  Outcome(<<"handleHelpRequest">>,
          Ask(session,
              <<"I'm here to help you make decisions that rely on our ",
                "world leading weather forecasts.",
                "Or you can say exit. ",
                "For instance, you can find out if you'll need an umbrella.">>
                \o repromptText,
              repromptText))

\* whichCityPrompt is not defined.
handleWelcomeRequest(session) ==
    Outcome(<<"handleWelcomeRequest">>, Fail(session, "ReferenceError"))

(***************************************************************************)
(* src/src/index.js: intentHandlers                                        *)
(***************************************************************************)

\* Variant: the Date slot is tested before the City slot.
DialogUmbrellaIntentDateFirst(intent, session) ==
    LET citySlot == intent.slots.City
        dateSlot == intent.slots.Date
    IN  IF SlotHasValue(dateSlot)
        THEN handleDateDialogRequest(intent, session)
        ELSE IF SlotHasValue(citySlot)
        THEN handleCityDialogRequest(intent, session)
        ELSE handleNoSlotDialogRequest(intent, session)

DialogUmbrellaIntent(intent, session) ==
    LET citySlot == intent.slots.City
        dateSlot == intent.slots.Date
    IN  IF SlotHasValue(citySlot)
        THEN handleCityDialogRequest(intent, session)
        ELSE IF SlotHasValue(dateSlot)
        THEN handleDateDialogRequest(intent, session)
        ELSE handleNoSlotDialogRequest(intent, session)

OneShotUmbrellaIntent(intent, session) ==
    handleOneshotUmbrellaRequest(intent, session)

SupportedCitiesIntent(intent, session) ==
    SupportedCitiesCall(intent, session)

HelpIntent(intent, session) == handleHelpRequest(session)

IntentNames ==
    {"OneShotUmbrellaIntent", "DialogUmbrellaIntent", "SupportedCitiesIntent",
     "HelpIntent", "StopIntent"}

\* AlexaSkill.prototype.eventHandlers.onIntent: look the intent name up in
\* intentHandlers, throw when there is no handler.
onIntent(intent, session) ==
    Enter(intent.name,
      CASE intent.name = "OneShotUmbrellaIntent" ->
               OneShotUmbrellaIntent(intent, session)
        [] intent.name = "DialogUmbrellaIntent" ->
               DialogUmbrellaIntent(intent, session)
        [] intent.name = "SupportedCitiesIntent" ->
               SupportedCitiesIntent(intent, session)
        [] intent.name = "HelpIntent" -> HelpIntent(intent, session)
        [] OTHER -> Outcome(<< >>, Fail(session, "Unsupported intent")))

onLaunch(session) == Enter("onLaunch", handleWelcomeRequest(session))

(***************************************************************************)
(* src/unnamed/part_001: the one-shot handler that calls the geocoder and  *)
(* the forecast service                                                    *)
(***************************************************************************)

\* An exception thrown inside the request() callback, after execute() has
\* returned: nothing catches it, neither context.succeed nor context.fail
\* is called.
Uncaught(session, e) ==
    [kind |-> "uncaught", speech |-> << >>, reprompt |-> << >>,
     shouldEndSession |-> FALSE, sessionAttributes |-> session,
     error |-> e]

\* No request() is in flight.
NoPending == [active |-> FALSE, city |-> << >>]

\* What the geocoder can answer for a query: a transport error, a status
\* other than 200, or status 200 with a JSON array of matches (empty for a
\* place it does not know).
GeocodeError == [error |-> TRUE, statusCode |-> 0, matches |-> 0]

GeocodeUnavailable == [error |-> FALSE, statusCode |-> 503, matches |-> 0]

GeocodeReplies(city) ==
    {GeocodeError, GeocodeUnavailable,
     [error |-> FALSE, statusCode |-> 200,
      matches |-> IF city = Seattle THEN 1 ELSE 0]}

\* What the forecast service can do: throw, or give the precipitation
\* probability of the current timestep in percent.
PrecipitationValues == {0, 50, 51, 100}

ForecastResults ==
    {[throws |-> TRUE, value |-> 0]}
    \cup {[throws |-> FALSE, value |-> v] : v \in PrecipitationValues}

\* What the external services answered in the current invocation: nothing
\* yet, or the geocoder's reply and, when the forecast was asked for, the
\* forecast's result.
NoReply == [error |-> FALSE, statusCode |-> 0, matches |-> 0]

NoForecast == [throws |-> FALSE, value |-> -1]

NoLookups ==
    [geocode |-> NoReply, forecast |-> NoForecast, request |-> NoRequest]

RainThresholdPercent == 50

getUmbrellaDecisionResponsePercent(rainProb) ==
    IF rainProb > RainThresholdPercent
    THEN <<"Take an umbrella">>
    ELSE <<"Don't take an umbrella">>

onGotLocation(session, forecast) ==
    \* getWeatherFromLocation reads forecast.days[0].timesteps[0], the
    \* current timestep.
    Enter("onGotLocation",
      [(IF forecast.throws
        THEN Outcome(<<"getWeatherFromLocation">>,
                     Uncaught(session, "forecast error"))
        ELSE Outcome(<<"getWeatherFromLocation", "getUmbrellaDecisionResponse">>,
                     TellWithCard(session,
                         getUmbrellaDecisionResponsePercent(forecast.value))))
          EXCEPT !.request = WeatherRequest(CurrentDate)])

\* Variant: the callback goes on to the forecast whatever the geocoder said.
requestCallbackIgnoresError(session, reply, forecast) ==
    onGotLocation(session, forecast)

\* The callback request() calls with the geocoder's answer.
requestCallback(session, reply, forecast) ==
    IF ~reply.error /\ reply.statusCode = 200
    THEN IF reply.matches = 0
         THEN \* JSON.parse(body)[0] is undefined: r.lat throws
              Outcome(<< >>, Uncaught(session, "TypeError"))
         ELSE onGotLocation(session, forecast)
    ELSE Outcome(<< >>, Uncaught(session, "throw error"))

\* The synchronous part: read intent.slots.location.value (a TypeError when
\* the slot is missing) and issue the request.
getLocationFromIntentWeb(intent, session) ==
    Enter("getLocationFromIntent",
      IF ~intent.slots.location.present
      THEN Outcome(<< >>, Fail(session, "TypeError"))
      ELSE Outcome(<<"request">>, Silent(session)))

handleOneshotUmbrellaRequestWeb(intent, session) ==
    Enter("OneShotUmbrellaIntent",
      Enter("handleOneshotUmbrellaRequest",
        getLocationFromIntentWeb(intent, session)))

(***************************************************************************)
(* src/unnamed/part_002: the stand-alone handler with the NeedUmbrella     *)
(* intent                                                                  *)
(***************************************************************************)

\* buildResponse(sessionAttributes, buildSpeechletResponse(title, output,
\* repromptText, shouldEndSession)).
buildResponse(sessionAttributes, output, repromptText, shouldEndSession) ==
    [kind |-> "speechlet", speech |-> output, reprompt |-> repromptText,
     shouldEndSession |-> shouldEndSession,
     sessionAttributes |-> sessionAttributes, error |-> "none"]

\* An exception on its way up the stack of exports.handler.
Thrown(session, e) ==
    [kind |-> "thrown", speech |-> << >>, reprompt |-> << >>,
     shouldEndSession |-> FALSE, sessionAttributes |-> session,
     error |-> e]

\* The callback exports.handler passes to onLaunch and onIntent.
callback(sessionAttributes, output, repromptText, shouldEndSession) ==
    Outcome(<<"context.succeed">>,
            buildResponse(sessionAttributes, output, repromptText,
                          shouldEndSession))

getWelcomeResponse ==
    Enter("getWelcomeResponse",
      callback(EmptyAttributes,
               <<"Welcome to the Met Office, You can find out if you need to take an umbrella with you today by saying, Do I need an umbrella in LOCATION">>,
               <<"Please tell where you are by saying, I'M HERE">>,
               FALSE))

getNeedUmbrea(intent, session) ==
    LET ukPlace == intent.slots.ukPlace
    IN  Enter("getNeedUmbrea",
          IF ukPlace.present
          THEN callback(EmptyAttributes,
                        <<"Oooh I don't know about ">> \o ukPlace.value
                            \o <<" I'll ask Jacob">>,
                        <<"You can ask me if you need an umbrella if you like">>,
                        FALSE)
          ELSE callback(EmptyAttributes,
                        <<"I'm not sure where you are, please tell me again">>,
                        <<"I'm not sure what your location is, you can ask me if you need to take and umbrella by saying magic words">>,
                        FALSE))

\* Variant: every intent name is dispatched to getNeedUmbrea.
onIntentStandaloneNoThrow(intent, session) ==
    Enter("onIntent", getNeedUmbrea(intent, session))

onIntentStandalone(intent, session) ==
    Enter("onIntent",
      IF intent.name = "NeedUmbrella"
      THEN getNeedUmbrea(intent, session)
      ELSE Outcome(<< >>, Thrown(session, "Invalid intent")))

onLaunchStandalone == Enter("onLaunch", getWelcomeResponse)

onSessionEnded(session) == Outcome(<<"onSessionEnded">>, Silent(session))

\* exports.handler: route on the request type inside try, context.fail in
\* the catch.  A request type it does not know calls nothing.
handlerStandalone(ev) ==
    LET session == ev.attributes
        started == IF ev.new THEN <<"onSessionStarted">> ELSE << >>
        o == CASE ev.type = "LaunchRequest" -> onLaunchStandalone
               [] ev.type = "IntentRequest" ->
                      onIntentStandalone(ev.intent, session)
               [] ev.type = "SessionEndedRequest" ->
                      LET e == onSessionEnded(session)
                      IN  Outcome(e.calls \o <<"context.succeed">>,
                                  e.response)
               [] OTHER -> Outcome(<< >>, Silent(session))
    IN  IF o.response.kind = "thrown"
        THEN Outcome(started \o o.calls \o <<"context.fail">>,
                     Fail(session, o.response.error))
        ELSE Outcome(started \o o.calls, o.response)

StandaloneIntentNames == {"NeedUmbrella", "HelpIntent", "StopIntent"}

\* The requests sent to part_002: a launch, an intent, the end of the
\* session, or a request of a type the handler does not route.
StandaloneRequests ==
    {[type |-> "LaunchRequest", intent |-> NoIntent],
     [type |-> "SessionEndedRequest", intent |-> NoIntent],
     [type |-> "UnknownRequest", intent |-> NoIntent]}
    \cup {[type |-> "IntentRequest", intent |-> [name |-> n, slots |-> sl]] :
             n \in StandaloneIntentNames, sl \in UkPlaceInputs}

(***************************************************************************)
(* The host: one event per turn                                            *)
(***************************************************************************)

NoEvent ==
    [type |-> "none", intent |-> NoIntent, attributes |-> EmptyAttributes,
     new |-> FALSE, skill |-> "none"]

InitHost ==
    /\ attributes = EmptyAttributes
    /\ sessionNew = TRUE
    /\ event = NoEvent
    /\ response = NoResponse
    /\ calls = << >>
    /\ turn = 0
    /\ pending = NoPending
    /\ lookups = NoLookups

\* Nothing has been evaluated.
NotEvaluated == << >>

InitFunctions ==
    /\ rainProbIn = Half
    /\ decisionTxt = NotEvaluated
    /\ dateSlotIn = NoSlot
    /\ resolved = NotEvaluated

Init == InitHost /\ InitFunctions

\* The session is open for another request of the same session, and the
\* previous invocation has finished.
SessionOpen ==
    /\ ~response.shouldEndSession
    /\ ~pending.active
    /\ event.type # "SessionEndedRequest"

\* The host keeps the attributes of the directive it received; a failed or
\* silent turn gives it nothing to keep.
Deliver(ev, o) ==
    /\ event' = ev
    /\ response' = o.response
    /\ calls' = IF ev.new THEN <<"onSessionStarted">> \o o.calls ELSE o.calls
    /\ attributes' = IF o.response.kind \in {"ask", "tellWithCard"}
                     THEN o.response.sessionAttributes
                     ELSE attributes
    /\ sessionNew' = FALSE
    /\ turn' = turn + 1
    /\ lookups' = [NoLookups EXCEPT !.request = o.request]
    /\ UNCHANGED functions

IntentRequest ==
    /\ turn < MaxTurns
    /\ SessionOpen
    /\ \E name \in IntentNames, slots \in SlotInputs :
         LET intent == [name |-> name, slots |-> slots]
             ev == [type |-> "IntentRequest", intent |-> intent,
                    attributes |-> attributes, new |-> sessionNew,
                    skill |-> "index.js"]
         IN  Deliver(ev, onIntent(intent, attributes))
    /\ UNCHANGED pending

LaunchRequest ==
    /\ turn < MaxTurns
    /\ SessionOpen
    /\ LET ev == [type |-> "LaunchRequest", intent |-> NoIntent,
                  attributes |-> attributes, new |-> sessionNew,
                  skill |-> "index.js"]
       IN  Deliver(ev, onLaunch(attributes))
    /\ UNCHANGED pending

\* A OneShotUmbrellaIntent request to the handler of part_001: it answers
\* at once only when it throws; otherwise its request() is in flight.
OneShotWebRequest ==
    /\ turn < MaxTurns
    /\ SessionOpen
    /\ \E slots \in SlotInputs :
         LET intent == [name |-> "OneShotUmbrellaIntent", slots |-> slots]
             ev == [type |-> "IntentRequest", intent |-> intent,
                    attributes |-> attributes, new |-> sessionNew,
                    skill |-> "part_001"]
             o == handleOneshotUmbrellaRequestWeb(intent, attributes)
         IN  /\ Deliver(ev, o)
             /\ pending' = IF o.response.kind = "fail"
                           THEN NoPending
                           ELSE [active |-> TRUE,
                                 city |-> slots.location.value]

\* A request to the handler of part_002.  The host sends SessionEndedRequest
\* only for a session it has opened.
StandaloneRequest ==
    /\ turn < MaxTurns
    /\ SessionOpen
    /\ \E req \in StandaloneRequests :
         LET ev == [type |-> req.type, intent |-> req.intent,
                    attributes |-> attributes, new |-> sessionNew,
                    skill |-> "part_002"]
             o == handlerStandalone(ev)
         IN  /\ req.type = "SessionEndedRequest" => ~sessionNew
             /\ event' = ev
             /\ response' = o.response
             /\ calls' = o.calls
             /\ attributes' = IF o.response.kind = "speechlet"
                              THEN o.response.sessionAttributes
                              ELSE attributes
    /\ sessionNew' = FALSE
    /\ turn' = turn + 1
    /\ lookups' = NoLookups
    /\ UNCHANGED <<pending, functions>>

\* The geocoder answers and the callback of request() runs to its end.
GeocodeReply ==
    /\ pending.active
    /\ \E reply \in GeocodeReplies(pending.city),
          forecast \in ForecastResults :
         LET o == requestCallback(attributes, reply, forecast)
         IN  /\ response' = o.response
             /\ calls' = calls \o o.calls
             /\ lookups' =
                  [geocode |-> reply,
                   forecast |->
                       IF \E i \in 1..Len(o.calls) :
                              o.calls[i] = "getWeatherFromLocation"
                       THEN forecast
                       ELSE NoForecast,
                   request |-> o.request]
    /\ pending' = NoPending
    /\ UNCHANGED <<attributes, sessionNew, event, turn, functions>>

\* The host ends the session (the user quits, or the last directive ended
\* it) and the next request opens a fresh one with empty attributes.
NewSession ==
    /\ ~sessionNew
    /\ ~pending.active
    /\ attributes' = EmptyAttributes
    /\ sessionNew' = TRUE
    /\ response' = NoResponse
    /\ event' = NoEvent
    /\ calls' = << >>
    /\ lookups' = NoLookups
    /\ UNCHANGED <<turn, pending, functions>>

Next ==
    \/ IntentRequest
    \/ LaunchRequest
    \/ OneShotWebRequest
    \/ StandaloneRequest
    \/ GeocodeReply
    \/ NewSession

Spec == Init /\ [][Next]_vars

(***************************************************************************)
(* getUmbrellaDecisionResponse evaluated on its own                        *)
(***************************************************************************)

MaxDen == 20

\* Every probability num/den with a denominator up to MaxDen.
Probabilities == [num : 0..MaxDen, den : 1..MaxDen]

InitRule ==
    /\ InitHost
    /\ rainProbIn \in {p \in Probabilities : p.num <= p.den}
    /\ decisionTxt = NotEvaluated
    /\ dateSlotIn = NoSlot
    /\ resolved = NotEvaluated

Decide ==
    /\ decisionTxt = NotEvaluated
    /\ decisionTxt' = getUmbrellaDecisionResponse(rainProbIn)
    /\ UNCHANGED <<host, rainProbIn, dateSlotIn, resolved>>

SpecRule == InitRule /\ [][Decide]_vars

(***************************************************************************)
(* getDateFromIntent evaluated on its own                                  *)
(***************************************************************************)

FirstYear == 2015

LastYear == 2016

TwoDigits(n) == <<Digits[(n \div 10) + 1], Digits[(n % 10) + 1]>>

\* The Date slot value YYYY-MM-DD of a calendar date, one character per
\* token.
IsoDate(y, m, d) ==
    TwoDigits(y \div 100) \o TwoDigits(y % 100) \o <<"-">> \o TwoDigits(m)
        \o <<"-">> \o TwoDigits(d)

\* The number of days of month m of year y (years 1901..2099).
MonthLength(y, m) ==
    IF m = 2 /\ y % 4 = 0
    THEN 29
    ELSE <<31, 28, 31, 30, 31, 30, 31, 31, 30, 31, 30, 31>>[m]

\* Every calendar date of the years FirstYear..LastYear.
CalendarDates ==
    UNION {{IsoDate(y, m, d) : d \in 1..MonthLength(y, m)} :
             y \in FirstYear..LastYear, m \in 1..12}

InitDate ==
    /\ InitHost
    /\ rainProbIn = Half
    /\ decisionTxt = NotEvaluated
    /\ dateSlotIn \in {NoSlot, SlotOf(<< >>)}
                       \cup {SlotOf(s) : s \in CalendarDates}
    /\ resolved = NotEvaluated

Resolve ==
    /\ resolved = NotEvaluated
    /\ resolved' = getDateFromIntent(
                       [name |-> "DialogUmbrellaIntent",
                        slots |-> [NoSlots EXCEPT !.Date = dateSlotIn]])
    /\ UNCHANGED <<host, rainProbIn, decisionTxt, dateSlotIn>>

SpecDate == InitDate /\ [][Resolve]_vars

(***************************************************************************)
(* Vocabulary of the properties                                            *)
(***************************************************************************)

\* t occurs in s as a contiguous run of tokens.
IsInfix(t, s) ==
    \E i \in 0..(Len(s) - Len(t)) :
        \A j \in 1..Len(t) : s[i + j] = t[j]

\* The last turn was a DialogUmbrellaIntent request.
DialogTurn ==
    event.type = "IntentRequest" /\ event.intent.name = "DialogUmbrellaIntent"

OneShotTurn ==
    event.type = "IntentRequest" /\ event.intent.name = "OneShotUmbrellaIntent"

\* The slot is present with a non-empty value.
Provided(slot) == slot.present /\ slot.value # << >>

CityGiven == Provided(event.intent.slots.City)

DateGiven == Provided(event.intent.slots.Date)

Ran(fn) == \E i \in 1..Len(calls) : calls[i] = fn

\* The session attributes the turn received.
before == event.attributes

SessionUnchanged ==
    attributes.city = before.city /\ attributes.date = before.date

\* The turn answered with a spoken directive that keeps the session open.
Asked == response.kind = "ask" /\ ~response.shouldEndSession

\* The turn answered with the final directive.
FinalAnswer == response.kind = "tellWithCard" /\ response.shouldEndSession

AsksForDate ==
    /\ Asked
    /\ response.speech # << >>
    /\ response.speech[Len(response.speech)] \in
         {"For which date?",
          "Please try again saying a day of the week, for example, Saturday. ",
          "For which date would you like tide information?"}

AsksForDayOfWeek ==
    /\ Asked
    /\ IsInfix(<<"Please try again saying a day of the week, for example, Saturday. ">>,
               response.speech)

AsksForCity ==
    /\ Asked
    /\ \/ IsInfix(<<"For which city would you like tide information for ">>,
                  response.speech)
       \/ IsInfix(<<"Which city would you like tide information for?">>,
                  response.speech)

ValidDateStrings == {Date20150620, Date20151105}

(***************************************************************************)
(* Properties                                                              *)
(***************************************************************************)

\* C1: a dialog turn gives the final answer only when a city and a date are
\* both known (from this turn's slot or from the session), and when exactly
\* one of them is known the directive asks for the other one.
CityKnown == HasCity(before) \/ CityGiven

DateKnown == HasDate(before) \/ (~CityGiven /\ DateGiven)

DialogAsksForTheMissingSlot ==
    DialogTurn =>
        /\ FinalAnswer => (CityKnown /\ DateKnown)
        /\ (CityKnown /\ ~DateKnown) => AsksForDate
        /\ (DateKnown /\ ~CityKnown) => AsksForCity

\* C2: the city branch runs iff City has a non-empty value, the date branch
\* iff City has none and Date has one, the no-slot branch iff neither has
\* one; exactly one of the three runs.
DispatchByCityThenDate ==
    DialogTurn =>
        /\ Ran("handleCityDialogRequest") <=> CityGiven
        /\ Ran("handleDateDialogRequest") <=> (~CityGiven /\ DateGiven)
        /\ Ran("handleNoSlotDialogRequest") <=> (~CityGiven /\ ~DateGiven)
        /\ Cardinality({f \in {"handleCityDialogRequest",
                               "handleDateDialogRequest",
                               "handleNoSlotDialogRequest"} : Ran(f)}) = 1

\* Both slots carry a value and the city branch ran.
CityWinsOverDate ==
    /\ DialogTurn
    /\ CityGiven
    /\ DateGiven
    /\ Ran("handleCityDialogRequest")
    /\ ~Ran("handleDateDialogRequest")

\* C3: a dialog turn whose City slot is "Seattle" gives the final answer
\* when the session holds a date; otherwise it stores Seattle as the
\* session's city and asks for the date, keeping the session open.
CityTurnStoresCityOrAnswers ==
    (DialogTurn /\ event.intent.slots.City = SlotOf(Seattle)) =>
        IF HasDate(before)
        THEN FinalAnswer
        ELSE /\ attributes.city = [set |-> TRUE, value |-> Seattle]
             /\ attributes.date = before.date
             /\ AsksForDate

\* C4: with a city stored in the session, a dialog turn that gives a valid
\* date and no city ends with the final directive, shouldEndSession true.
DateAfterCityIsTerminal ==
    (/\ DialogTurn
     /\ HasCity(before)
     /\ ~CityGiven
     /\ event.intent.slots.Date.value \in ValidDateStrings)
        => FinalAnswer

\* C5: a dialog turn that gives a valid date and no city, in a session
\* without a city, stores the date, leaves the city absent, asks for a city
\* naming the date's display text, and keeps the session open.
DateTurnWithoutCity ==
    /\ DialogTurn
    /\ ~CityGiven
    /\ event.intent.slots.Date.value \in ValidDateStrings
    /\ ~HasCity(before)

DateFirstStoresDateAndAsksCity ==
    DateTurnWithoutCity =>
        /\ attributes.date.set
        /\ attributes.date.displayDate # << >>
        /\ attributes.city = before.city
        /\ ~attributes.city.set
        /\ AsksForCity
        /\ IsInfix(attributes.date.displayDate, response.speech)

DateFirstHappened ==
    /\ DateTurnWithoutCity
    /\ event.intent.slots.Date.value = Date20150620
    /\ attributes.date.set
    /\ response.kind = "ask"

\* C6: a dialog turn naming a city that is not known re-prompts for a city,
\* keeps the session open and leaves the session's city and date as they
\* were.
UnknownCityReprompts ==
    (/\ DialogTurn
     /\ event.intent.slots.City = SlotOf(Nowhereville)
     /\ event.intent.slots.location = SlotOf(Nowhereville))
        => (AsksForCity /\ SessionUnchanged)

\* C7: a dialog turn whose Date slot cannot be parsed re-prompts for a day
\* of the week, keeps the session open and stores no date.
UnparseableDateReprompts ==
    (/\ DialogTurn
     /\ ~CityGiven
     /\ DateGiven
     /\ ~NewDate(event.intent.slots.Date.value).valid)
        => (AsksForDayOfWeek /\ attributes.date = before.date)

\* C8 as stated: a dialog turn with neither a city nor a date value
\* re-prompts for a city and leaves the session's city and date unchanged,
\* whatever the session holds.
NoSlotTurn == DialogTurn /\ ~CityGiven /\ ~DateGiven

NoSlotPromptFromSession ==
    NoSlotTurn =>
        /\ Asked
        /\ response.speech # << >>
        /\ IF HasCity(before) THEN AsksForDate ELSE AsksForCity

\* C10: a one-shot turn whose location is missing, empty or unknown asks the
\* user to restate the city, names the input when there was one, keeps the
\* session open and unchanged, and makes no weather lookup.
WeatherLookups == {"makeDataPointRequest", "getWeatherFromLocation"}

OneShotUnknownLocationReprompts ==
    (/\ OneShotTurn
     /\ ~pending.active
     /\ event.intent.slots.location \in
          {NoSlot, SlotOf(<< >>), SlotOf(Nowhereville)})
        => /\ AsksForCity
           /\ Provided(event.intent.slots.location)
                => IsInfix(event.intent.slots.location.value, response.speech)
           /\ SessionUnchanged
           /\ \A f \in WeatherLookups : ~Ran(f)

\* C11: a one-shot turn whose location can be resolved, and whose lookups do
\* not fail, ends with exactly one terminal directive (tellWithCard,
\* shouldEndSession true) that speaks the umbrella decision for the
\* probability looked up; the invocation does not end without a response.
DecisionTexts == {<<"Take an umbrella">>, <<"Don't take an umbrella">>}

ExternalCallFailed ==
    \/ lookups.geocode.error
    \/ lookups.geocode.statusCode \notin {0, 200}
    \/ lookups.forecast.throws

InvocationOver == event.type # "none" /\ ~pending.active

OneShotResolvableAnswers ==
    (/\ OneShotTurn
     /\ event.intent.slots.location = SlotOf(Seattle)
     /\ InvocationOver
     /\ ~ExternalCallFailed)
        => /\ FinalAnswer
           /\ response.speech \in DecisionTexts

\* C12: when the geocoder or the forecast call fails, the turn still ends
\* with a terminal directive that apologises (no uncaught fault, no
\* decision text), and the failed call is not made again.
CallCount(fn) == Cardinality({i \in 1..Len(calls) : calls[i] = fn})

ExternalFailureApologises ==
    (InvocationOver /\ ExternalCallFailed)
        => /\ response.kind # "uncaught"
           /\ FinalAnswer
           /\ response.speech # << >>
           /\ response.speech \notin DecisionTexts
           /\ CallCount("request") <= 1
           /\ CallCount("getWeatherFromLocation") <= 1

\* C13: an intent request to part_002 whose intent name is not NeedUmbrella
\* ends in context.fail with the invalid-intent exception, and
\* context.succeed is not called for it.
UnrecognisedIntentTurn ==
    /\ event.skill = "part_002"
    /\ event.type = "IntentRequest"
    /\ event.intent.name # "NeedUmbrella"

UnrecognisedIntentFails ==
    UnrecognisedIntentTurn
        => /\ Ran("context.fail")
           /\ ~Ran("context.succeed")
           /\ response.kind = "fail"
           /\ response.error = "Invalid intent"
           /\ response.speech = << >>

UnrecognisedIntentHappened ==
    /\ UnrecognisedIntentTurn
    /\ event.intent.slots.ukPlace = SlotOf(Seattle)
    /\ Ran("context.fail")

\* C14: a HelpIntent turn answers with the same fixed speech and reprompt
\* whatever the slots and the session hold, keeps the session open (ask,
\* shouldEndSession false) and leaves session.attributes as they were.
HelpTurn ==
    /\ event.skill = "index.js"
    /\ event.type = "IntentRequest"
    /\ event.intent.name = "HelpIntent"

HelpReprompt == <<"Ask me if you are going to need an umbrella if you like.">>

HelpSpeech ==
    <<"I'm here to help you make decisions that rely on our ",
      "world leading weather forecasts.",
      "Or you can say exit. ",
      "For instance, you can find out if you'll need an umbrella.",
      "Ask me if you are going to need an umbrella if you like.">>

HelpIsFixedAndKeepsSession ==
    HelpTurn
        => /\ Asked
           /\ response.speech = HelpSpeech
           /\ response.reprompt = HelpReprompt
           /\ response.sessionAttributes = before
           /\ attributes = before

HelpWithSessionHappened ==
    /\ HelpTurn
    /\ Asked
    /\ before.date.set
    /\ event.intent.slots.City = SlotOf(Seattle)

\* C15: getUmbrellaDecisionResponse(p) is "Take an umbrella" exactly when p
\* is strictly greater than one half, and "Don't take an umbrella"
\* otherwise, the boundary p = 0.5 included; 0.6 gives the first text, 0.4
\* and 0.5 the second.
Decided == decisionTxt # NotEvaluated

UmbrellaRule ==
    Decided
        => /\ decisionTxt \in DecisionTexts
           /\ decisionTxt = <<"Take an umbrella">>
                  <=> 2 * rainProbIn.num > rainProbIn.den
           /\ rainProbIn = [num |-> 6, den |-> 10]
                  => decisionTxt = <<"Take an umbrella">>
           /\ rainProbIn \in {[num |-> 4, den |-> 10], [num |-> 5, den |-> 10]}
                  => decisionTxt = <<"Don't take an umbrella">>

BoundaryDecided ==
    /\ Decided
    /\ rainProbIn = [num |-> 5, den |-> 10]
    /\ decisionTxt = <<"Don't take an umbrella">>

\* C16: for a Date slot holding a calendar date YYYY-MM-DD the resolved
\* date's requestDateParam is "begin_date=" followed by the eight digits
\* YYYYMMDD (month and day in two digits) followed by "&range=24"; for an
\* absent or empty Date slot the displayDate is "Today".
DateResolved == resolved # NotEvaluated

DateSlotIs(s) == dateSlotIn = SlotOf(s)

\* The digits of YYYY-MM-DD without the dashes.
EightDigits(s) == SubSeq(s, 1, 4) \o SubSeq(s, 6, 7) \o SubSeq(s, 9, 10)

RequestDateParamIsYYYYMMDD ==
    DateResolved
        => /\ Provided(dateSlotIn)
                 => /\ resolved.requestDateParam =
                          <<"begin_date=">> \o EightDigits(dateSlotIn.value)
                              \o <<"&range=24">>
                    /\ Len(resolved.requestDateParam) = 10
           /\ ~Provided(dateSlotIn) => resolved.displayDate = <<"Today">>
           /\ DateSlotIs(Date20150620)
                 => resolved.requestDateParam =
                        <<"begin_date=", "2", "0", "1", "5", "0", "6", "2", "0",
                          "&range=24">>

SingleDigitMonthAndDayResolved ==
    /\ DateResolved
    /\ DateSlotIs(<<"2", "0", "1", "6", "-", "0", "2", "-", "0", "9">>)
    /\ resolved.requestDateParam[6] = "0"
    /\ resolved.requestDateParam[8] = "0"

\* C17: every launch and every request of a recognised intent (help,
\* one-shot, each dialog branch, in every session state) ends with a
\* directive that carries spoken text; none ends in a fault or without a
\* response.
RecognisedTurn ==
    \/ event.type = "LaunchRequest"
    \/ /\ event.type = "IntentRequest"
       /\ \/ /\ event.skill \in {"index.js", "part_001"}
             /\ event.intent.name \in
                  {"HelpIntent", "OneShotUmbrellaIntent", "DialogUmbrellaIntent"}
          \/ /\ event.skill = "part_002"
             /\ event.intent.name = "NeedUmbrella"

EveryBranchSpeaks ==
    (RecognisedTurn /\ InvocationOver)
        => /\ response.kind \in {"ask", "tellWithCard", "speechlet"}
           /\ response.speech # << >>

\* C19: within one turn the geocoder request and the weather lookup are each
\* made at most once; the weather lookup is made only after the geocoder
\* request, and only when that request came back without error, with status
\* 200 and a match; while the request is in flight or after it failed no
\* weather lookup is made and no decision text is spoken.
GeocodeSucceeded ==
    /\ ~lookups.geocode.error
    /\ lookups.geocode.statusCode = 200
    /\ lookups.geocode.matches > 0

Position(fn) == CHOOSE i \in 1..Len(calls) : calls[i] = fn

WebTurn == event.skill = "part_001"

LookupsInSequence ==
    WebTurn
        => /\ CallCount("request") <= 1
           /\ CallCount("getWeatherFromLocation") <= 1
           /\ Ran("getWeatherFromLocation")
                  => /\ Ran("request")
                     /\ Position("request") < Position("getWeatherFromLocation")
                     /\ GeocodeSucceeded
           /\ (pending.active \/ ~GeocodeSucceeded)
                  => /\ ~Ran("getWeatherFromLocation")
                     /\ response.speech \notin DecisionTexts
           /\ response.speech \in DecisionTexts
                  => Ran("getWeatherFromLocation")

WeatherLookedUpAfterGeocode ==
    /\ WebTurn
    /\ GeocodeSucceeded
    /\ Ran("getWeatherFromLocation")
    /\ response.speech = <<"Take an umbrella">>

\* C21: a one-shot turn asks for the weather of the current date whatever
\* the Date slot holds, never resolves the Date slot and leaves
\* session.attributes as they were; a date is resolved, and a date is
\* stored in the session, only by a dialog turn.
OneShotUsesCurrentDate ==
    /\ OneShotTurn
          => /\ lookups.request.made => lookups.request.date = CurrentDate
             /\ ~Ran("getDateFromIntent")
             /\ attributes = before
             /\ response.sessionAttributes = before
    /\ Ran("getDateFromIntent") => DialogTurn
    /\ (attributes.date.set /\ attributes.date # before.date) => DialogTurn

OneShotWithDateSlotHappened ==
    /\ OneShotTurn
    /\ DateGiven
    /\ before.date.set
    /\ lookups.request.made
    /\ lookups.request.date = CurrentDate

\* C22: in a session that started empty, session.attributes never holds a
\* city and a date at the same time, neither in the session the host keeps
\* nor in the attributes a directive carries.
HoldsBoth(attrs) == HasCity(attrs) /\ HasDate(attrs)

NeverCityAndDate ==
    /\ ~HoldsBoth(attributes)
    /\ ~HoldsBoth(response.sessionAttributes)
    /\ ~HoldsBoth(before)
    /\ (HasCity(attributes) /\ ~HasCity(before)) => ~HasDate(before)
    /\ (HasDate(attributes) /\ ~HasDate(before)) => ~HasCity(before)

DateArrivedAfterCity ==
    /\ DialogTurn
    /\ HasCity(before)
    /\ DateGiven
    /\ ~CityGiven
    /\ Ran("handleDateDialogRequest")
    /\ HasCity(attributes)
    /\ ~HasDate(attributes)

\* C23: one invocation of the handler of part_002 signals the host exactly
\* once, by one call of context.succeed or of context.fail, whatever the
\* request type and whether or not the session is new; in a new session
\* onSessionStarted runs first.
StandaloneTurn == event.skill = "part_002"

StandaloneSignalsOnce ==
    StandaloneTurn
        => /\ CallCount("context.succeed") + CallCount("context.fail") = 1
           /\ event.new
                 => /\ calls # << >>
                    /\ calls[1] = "onSessionStarted"
           /\ ~event.new => ~Ran("onSessionStarted")

====
